---- MODULE Spec2Model ----
(***************************************************************************)
(* Model of sshcard: a Bubble Tea menu served over SSH.                    *)
(*                                                                         *)
(* The repository holds two variants of the program, main.go (plain menu)  *)
(* and unnamed/part_000 (menu with detail texts, "WIP" title).  Both share *)
(* teaHandler, model, Init and Update; they differ in View.                *)
(*                                                                         *)
(* The session driver is the Bubble Tea program started for each session   *)
(* by bubbletea.Middleware(teaHandler): it renders the first view, runs    *)
(* the command returned by Init, and then for every message it receives    *)
(* calls Update, hands the returned command to a goroutine of its own and  *)
(* writes View.  A command is a function that is run concurrently and      *)
(* whose result is sent back to the driver as a message: tea.Quit is such  *)
(* a command (its message makes the driver leave the loop without calling  *)
(* Update), and so is the spinner's tick.                                  *)
(*                                                                         *)
(* Go values: model is a struct passed by value, so Update and View work   *)
(* on a copy of every field; selected is a map, a reference, so the copy   *)
(* shares the map with the value it was copied from.  The map lives in     *)
(* heap and model.selected is its address.  int and uint are 64 bits wide  *)
(* (the image is built for a 64-bit platform); a uint is written as four   *)
(* 16-bit limbs, most significant first.                                   *)
(***************************************************************************)
EXTENDS Integers, Sequences, FiniteSets, TLC

VARIABLES
    variant,      \* which program runs: "main" (main.go) or "wip" (part_000)
    pc,           \* driver position: "running", "done"
    m,            \* the session's current model value
    heap,         \* map objects: heap[a] is the key set of the map at address a
    ticks,        \* tick commands in flight (the message each will deliver)
    quitPending,  \* a tea.Quit command is running, its QuitMsg not yet received
    screen,       \* the frame last written to the renderer
    lastEv,       \* the message of the last Update call
    prev,         \* the model value and the heap that Update call was given
    quitSeen,     \* Update has processed a quit key
    late          \* Update calls (= frames written) after the one that quit

vars == <<variant, pc, m, heap, ticks, quitPending, screen, lastEv, prev,
          quitSeen, late>>

(* The merge of one session's two message sources (specification SpecMerge). *)
VARIABLES
    mgM,          \* the session's model value
    mgHeap,       \* its map objects
    mgPending,    \* input messages the read loop has decoded, not yet sent on
    mgSent,       \* every input message decoded so far, in order
    mgApplied,    \* the input messages Update was called with, in order
    mgTicks,      \* tick commands in flight
    mgTickLog     \* the tags of the ticks Update was called with, in order

mergeVars == <<mgM, mgHeap, mgPending, mgSent, mgApplied, mgTicks, mgTickLog>>

(* Concurrent sessions of one server (specifications SpecSessions and       *)
(* SpecSessionsFair).                                                       *)
VARIABLES
    sess,         \* per session: driver position, model, commands in flight
    sHeap,        \* the map objects of all sessions
    lastID,       \* the spinner package's id counter
    actor         \* the session the last step belonged to

sessVars == <<sess, sHeap, lastID, actor>>

(* The process: main and its goroutines (specification SpecMain). *)
VARIABLES
    mainPc,       \* position of main
    srv,          \* the server value wish.NewServer returned
    lis,          \* state of the goroutine that runs ListenAndServe
    doneCh,       \* contents of the channel done (capacity 1)
    logs,         \* the messages logged so far
    served,       \* sessions handed to teaHandler
    proc,         \* the process: "running", "exited", "fatal" or "crashed"
    signalled,    \* a termination signal was delivered to the process
    http          \* the static file server of part_000: "off" in main.go

mainVars == <<mainPc, srv, lis, doneCh, logs, served, proc, signalled, http>>

\* Each specification moves the variables of one part and keeps the others
\* at rest.
SessionAtRest ==
    /\ variant = "main"
    /\ pc = "rest"
    /\ m = <<>>
    /\ heap = <<>>
    /\ ticks = {}
    /\ quitPending = FALSE
    /\ screen = <<>>
    /\ lastEv = <<>>
    /\ prev = <<>>
    /\ quitSeen = FALSE
    /\ late = 0

MergeAtRest ==
    /\ mgM = <<>>
    /\ mgHeap = <<>>
    /\ mgPending = <<>>
    /\ mgSent = <<>>
    /\ mgApplied = <<>>
    /\ mgTicks = {}
    /\ mgTickLog = <<>>

SessionsAtRest ==
    /\ sess = <<>>
    /\ sHeap = <<>>
    /\ lastID = 0
    /\ actor = 0

MainAtRest ==
    /\ mainPc = "rest"
    /\ srv = "none"
    /\ lis = "rest"
    /\ doneCh = <<>>
    /\ logs = {}
    /\ served = 0
    /\ proc = "rest"
    /\ signalled = FALSE
    /\ http = "off"

----------------------------------------------------------------------------
(* Bounds of the model. *)

MaxTag == 8         \* spinner ticks processed in a session
MaxLate == 2        \* messages processed between the quit key and QuitMsg
MaxInputs == 3      \* input messages read in a run of SpecMerge
MaxMergeTag == 2    \* spinner ticks processed in a run of SpecMerge
MaxSessTag == 1     \* spinner ticks processed by a session of SpecSessions
MaxServed == 2      \* sessions accepted in a run of SpecMain

(* Inputs. *)

Widths == {0, 10, 80}
Heights == {0, 24}
Keys == {"q", "ctrl+c", "up", "k", "down", "j", "enter", " ", "x"}

----------------------------------------------------------------------------
(* Program constants. *)

options == <<"info", "contact">>

NumFrames == 8      \* len(spinner.Dot.Frames)

Padding == 10

InfoDetails == "I'm a senior software engineer who loves to tinker with code across the board. Most of my time goes into building stuff with TypeScript, React, and Next.js, but I also dive into PHP for WordPress plugins when needed.On the side, I mess around with C++ and Go just for fun-keeps things interesting and keeps me learning."

ContactDetails == "cmateusz@protonmail.com"

Indices == 0 .. (Len(options) - 1)

----------------------------------------------------------------------------
(* Messages and commands. *)

KeyMsg(k) == [type |-> "key", key |-> k, w |-> 0, h |-> 0, id |-> 0, tag |-> 0]

WindowSizeMsg(w, h) ==
    [type |-> "resize", key |-> "", w |-> w, h |-> h, id |-> 0, tag |-> 0]

TickMsg(id, tag) ==
    [type |-> "tick", key |-> "", w |-> 0, h |-> 0, id |-> id, tag |-> tag]

\* Any other message the driver passes to Update (for instance an unknown
\* input sequence).
OtherMsg == [type |-> "other", key |-> "", w |-> 0, h |-> 0, id |-> 0, tag |-> 0]

InputMsgs ==
    {KeyMsg(k) : k \in Keys}
        \cup {WindowSizeMsg(w, h) : w \in Widths, h \in Heights}
        \cup {OtherMsg}

NoCmd == [type |-> "none", id |-> 0, tag |-> 0]
QuitCmd == [type |-> "quit", id |-> 0, tag |-> 0]
TickCmd(id, tag) == [type |-> "tick", id |-> id, tag |-> tag]

----------------------------------------------------------------------------
(* 64-bit unsigned integers as four 16-bit limbs. *)

\* uint(x) for an int x: x itself when x >= 0, 2^64 + x when x < 0.
ToUint(x) ==
    IF x >= 0
    THEN <<0, 0, x \div 65536, x % 65536>>
    ELSE <<65535, 65535,
           65535 - ((-x - 1) \div 65536), 65535 - ((-x - 1) % 65536)>>

UintIsZero(u) == u = <<0, 0, 0, 0>>

\* u <= n for an int n >= 0
UintLeqInt(u, n) ==
    /\ u[1] = 0
    /\ u[2] = 0
    /\ u[3] < 32768
    /\ u[3] * 65536 + u[4] <= n

----------------------------------------------------------------------------
(* teaHandler: the model a new session starts with. *)

NewSpinner(id) == [frame |-> 0, id |-> id, tag |-> 0]

teaHandler(w, h, addr, id) ==
    [width |-> w, height |-> h, cursor |-> 0, selected |-> addr,
     spinner |-> NewSpinner(id)]

\* model.Init: the spinner's Tick command, whose message carries the
\* spinner's id and its current tag.
ModelInit(md) == TickCmd(md.spinner.id, md.spinner.tag)

----------------------------------------------------------------------------
(* spinner.Update *)

\* Variant of SpinnerAdvance that never returns to the first frame.
SpinnerAdvanceNoWrap(sp) ==
    [sp EXCEPT !.frame = sp.frame + 1, !.tag = sp.tag + 1]

SpinnerAdvance(sp) ==
    [sp EXCEPT !.frame = IF sp.frame + 1 >= NumFrames THEN 0 ELSE sp.frame + 1,
               !.tag = sp.tag + 1]

SpinnerUpdate(sp, msg) ==
    IF msg.type # "tick" THEN [spinner |-> sp, cmd |-> NoCmd]
    ELSE IF msg.id > 0 /\ msg.id # sp.id THEN [spinner |-> sp, cmd |-> NoCmd]
    ELSE IF msg.tag > 0 /\ msg.tag # sp.tag THEN [spinner |-> sp, cmd |-> NoCmd]
    ELSE LET sp2 == SpinnerAdvance(sp)
         IN  [spinner |-> sp2, cmd |-> TickCmd(sp2.id, sp2.tag)]

----------------------------------------------------------------------------
(* model.Update *)

MoveUp(md) == IF md.cursor > 0 THEN [md EXCEPT !.cursor = md.cursor - 1] ELSE md

\* Variant of MoveDown without the test against the last index.
MoveDownNoClamp(md) == [md EXCEPT !.cursor = md.cursor + 1]

MoveDown(md) ==
    IF md.cursor < Len(options) - 1
    THEN [md EXCEPT !.cursor = md.cursor + 1]
    ELSE md

\* Variant of ToggleSelect that toggles the index after the cursor.
ToggleSelectNextIndex(md, hp) ==
    IF md.cursor + 1 \in hp[md.selected]
    THEN [hp EXCEPT ![md.selected] = hp[md.selected] \ {md.cursor + 1}]
    ELSE [hp EXCEPT ![md.selected] = hp[md.selected] \cup {md.cursor + 1}]

\* Variant of ToggleSelect in which selecting an option deselects the others.
ToggleSelectExclusive(md, hp) ==
    IF md.cursor \in hp[md.selected]
    THEN [hp EXCEPT ![md.selected] = hp[md.selected] \ {md.cursor}]
    ELSE [hp EXCEPT ![md.selected] = {md.cursor}]

\* Variant of ToggleSelect that never deletes.
ToggleSelectAddOnly(md, hp) ==
    [hp EXCEPT ![md.selected] = hp[md.selected] \cup {md.cursor}]

\* The toggle writes to the map md.selected refers to: the heap changes, the
\* model value's fields do not.
ToggleSelect(md, hp) ==
    IF md.cursor \in hp[md.selected]
    THEN [hp EXCEPT ![md.selected] = hp[md.selected] \ {md.cursor}]
    ELSE [hp EXCEPT ![md.selected] = hp[md.selected] \cup {md.cursor}]

\* Variant of Resize that also puts the cursor back on the first option.
ResizeResetsCursor(md, msg) ==
    [md EXCEPT !.height = msg.h, !.width = msg.w, !.cursor = 0]

Resize(md, msg) == [md EXCEPT !.height = msg.h, !.width = msg.w]

\* Variant of UpdateKey with the meanings of "k" and "j" exchanged.
UpdateKeySwapped(md, hp, key) ==
    IF key \in {"q", "ctrl+c"} THEN [m |-> md, heap |-> hp, cmd |-> QuitCmd]
    ELSE IF key \in {"up", "j"} THEN [m |-> MoveUp(md), heap |-> hp, cmd |-> NoCmd]
    ELSE IF key \in {"down", "k"}
        THEN [m |-> MoveDown(md), heap |-> hp, cmd |-> NoCmd]
    ELSE IF key \in {"enter", " "}
        THEN [m |-> md, heap |-> ToggleSelect(md, hp), cmd |-> NoCmd]
    ELSE [m |-> md, heap |-> hp, cmd |-> NoCmd]

\* Variant of UpdateKey in which any other key puts the cursor on the first
\* option.
UpdateKeyUnknownHome(md, hp, key) ==
    IF key \in {"q", "ctrl+c"} THEN [m |-> md, heap |-> hp, cmd |-> QuitCmd]
    ELSE IF key \in {"up", "k"} THEN [m |-> MoveUp(md), heap |-> hp, cmd |-> NoCmd]
    ELSE IF key \in {"down", "j"}
        THEN [m |-> MoveDown(md), heap |-> hp, cmd |-> NoCmd]
    ELSE IF key \in {"enter", " "}
        THEN [m |-> md, heap |-> ToggleSelect(md, hp), cmd |-> NoCmd]
    ELSE [m |-> [md EXCEPT !.cursor = 0], heap |-> hp, cmd |-> NoCmd]

UpdateKey(md, hp, key) ==
    IF key \in {"q", "ctrl+c"} THEN [m |-> md, heap |-> hp, cmd |-> QuitCmd]
    ELSE IF key \in {"up", "k"} THEN [m |-> MoveUp(md), heap |-> hp, cmd |-> NoCmd]
    ELSE IF key \in {"down", "j"}
        THEN [m |-> MoveDown(md), heap |-> hp, cmd |-> NoCmd]
    ELSE IF key \in {"enter", " "}
        THEN [m |-> md, heap |-> ToggleSelect(md, hp), cmd |-> NoCmd]
    ELSE [m |-> md, heap |-> hp, cmd |-> NoCmd]

\* Variant of UpdateDefault in which a tick also moves the cursor back.
UpdateDefaultMovesCursor(md, hp, msg) ==
    LET r == SpinnerUpdate(md.spinner, msg)
    IN  [m |-> [md EXCEPT !.spinner = r.spinner, !.cursor = 0],
         heap |-> hp, cmd |-> r.cmd]

\* Variant of UpdateDefault that returns no command.
UpdateDefaultDropsCmd(md, hp, msg) ==
    LET r == SpinnerUpdate(md.spinner, msg)
    IN  [m |-> [md EXCEPT !.spinner = r.spinner], heap |-> hp, cmd |-> NoCmd]

UpdateDefault(md, hp, msg) ==
    LET r == SpinnerUpdate(md.spinner, msg)
    IN  [m |-> [md EXCEPT !.spinner = r.spinner], heap |-> hp, cmd |-> r.cmd]

Update(md, hp, msg) ==
    IF msg.type = "resize" THEN [m |-> Resize(md, msg), heap |-> hp, cmd |-> NoCmd]
    ELSE IF msg.type = "key" THEN UpdateKey(md, hp, msg.key)
    ELSE UpdateDefault(md, hp, msg)

----------------------------------------------------------------------------
(* model.View.  A frame is the spinner glyph shown in the header, the title *)
(* and the body: one item per line written into s, an option line or the    *)
(* wrapped detail text of a selected option (text and the limit handed to   *)
(* wordwrap.WrapString).  Styling, the help line, the box and the margins   *)
(* are the same in every frame of a session size and are not part of it.    *)

\* Variant of OptionLine that ticks the box of the option under the cursor.
OptionLineCheckedAtCursor(md, hp, i) ==
    LET cursor == IF md.cursor = i THEN ">" ELSE " "
        checked == IF md.cursor = i THEN "x" ELSE " "
    IN  [kind |-> "option",
         text |-> cursor \o " [" \o checked \o "] " \o options[i + 1],
         lim |-> ToUint(0)]

OptionLine(md, hp, i) ==
    LET cursor == IF md.cursor = i THEN ">" ELSE " "
        checked == IF i \in hp[md.selected] THEN "x" ELSE " "
    IN  [kind |-> "option",
         text |-> cursor \o " [" \o checked \o "] " \o options[i + 1],
         lim |-> ToUint(0)]

\* Variant of Details that shows the text of the option under the cursor.
DetailsAtCursor(md, hp, i) ==
    IF md.cursor = i
    THEN (IF options[i + 1] = "info" THEN InfoDetails ELSE "")
            \o (IF options[i + 1] = "contact" THEN ContactDetails ELSE "")
    ELSE ""

Details(md, hp, i) ==
    IF i \in hp[md.selected]
    THEN (IF options[i + 1] = "info" THEN InfoDetails ELSE "")
            \o (IF options[i + 1] = "contact" THEN ContactDetails ELSE "")
    ELSE ""

WrapLimit(md) == ToUint(md.width - Padding)

DetailBlock(md, hp, i) ==
    IF Details(md, hp, i) # ""
    THEN <<[kind |-> "detail", text |-> Details(md, hp, i), lim |-> WrapLimit(md)]>>
    ELSE <<>>

RECURSIVE BodyMain(_, _, _)
BodyMain(md, hp, i) ==
    IF i >= Len(options) THEN <<>>
    ELSE <<OptionLine(md, hp, i)>> \o BodyMain(md, hp, i + 1)

RECURSIVE BodyWip(_, _, _)
BodyWip(md, hp, i) ==
    IF i >= Len(options) THEN <<>>
    ELSE <<OptionLine(md, hp, i)>> \o DetailBlock(md, hp, i)
            \o BodyWip(md, hp, i + 1)

ViewMain(md, hp) ==
    [spin |-> md.spinner.frame, title |-> "czpl.dev", body |-> BodyMain(md, hp, 0)]

ViewWip(md, hp) ==
    [spin |-> md.spinner.frame, title |-> "czpl.dev WIP",
     body |-> BodyWip(md, hp, 0)]

View(v, md, hp) == IF v = "main" THEN ViewMain(md, hp) ELSE ViewWip(md, hp)

----------------------------------------------------------------------------
(* The session driver. *)

NoMsg == [type |-> "none", key |-> "", w |-> 0, h |-> 0, id |-> 0, tag |-> 0]

\* The session's map is the first object allocated; its spinner is the
\* first one created.
SessionModel(w, h) == teaHandler(w, h, 1, 1)

Init ==
    /\ variant \in {"main", "wip"}
    /\ pc = "running"
    /\ \E w \in Widths, h \in Heights : m = SessionModel(w, h)
    /\ heap = <<{}>>
    /\ ticks = {TickMsg(ModelInit(m).id, ModelInit(m).tag)}
    /\ quitPending = FALSE
    /\ screen = View(variant, m, heap)
    /\ lastEv = NoMsg
    /\ prev = [m |-> m, heap |-> heap]
    /\ quitSeen = FALSE
    /\ late = 0
    /\ MergeAtRest
    /\ SessionsAtRest
    /\ MainAtRest

\* Variant of Process that does not start the command Update returned.
ProcessDropsCmd(msg, rest) ==
    LET r == Update(m, heap, msg)
    IN  /\ quitSeen => late < MaxLate
        /\ m' = r.m
        /\ heap' = r.heap
        /\ quitPending' = quitPending
        /\ ticks' = rest
        /\ screen' = View(variant, r.m, r.heap)
        /\ lastEv' = msg
        /\ prev' = [m |-> m, heap |-> heap]
        /\ quitSeen' = (quitSeen \/ r.cmd.type = "quit")
        /\ late' = IF quitSeen THEN late + 1 ELSE 0

\* One turn of the event loop for a message that is not QuitMsg:
\* Update, start the returned command, write the view.
Process(msg, rest) ==
    LET r == Update(m, heap, msg)
    IN  /\ quitSeen => late < MaxLate
        /\ m' = r.m
        /\ heap' = r.heap
        /\ quitPending' = (quitPending \/ r.cmd.type = "quit")
        /\ ticks' = IF r.cmd.type = "tick"
                    THEN rest \cup {TickMsg(r.cmd.id, r.cmd.tag)}
                    ELSE rest
        /\ screen' = View(variant, r.m, r.heap)
        /\ lastEv' = msg
        /\ prev' = [m |-> m, heap |-> heap]
        /\ quitSeen' = (quitSeen \/ r.cmd.type = "quit")
        /\ late' = IF quitSeen THEN late + 1 ELSE 0

\* The read loop hands the driver one input message.  The driver's message
\* channel is unbuffered, so the hand-over and the receipt are one step.
DeliverInput(msg) ==
    /\ pc = "running"
    /\ Process(msg, ticks)
    /\ UNCHANGED <<variant, pc, mergeVars, sessVars, mainVars>>

DeliverTick(t) ==
    /\ pc = "running"
    /\ t \in ticks
    /\ m.spinner.tag < MaxTag
    /\ Process(t, ticks \ {t})
    /\ UNCHANGED <<variant, pc, mergeVars, sessVars, mainVars>>

\* Variant of DeliverQuit that writes the view once more on its way out.
DeliverQuitRenders ==
    /\ pc = "running"
    /\ quitPending
    /\ pc' = "done"
    /\ quitPending' = FALSE
    /\ screen' = View(variant, m, heap)
    /\ late' = late + 1
    /\ UNCHANGED <<variant, m, heap, ticks, lastEv, prev, quitSeen>>
    /\ UNCHANGED <<mergeVars, sessVars, mainVars>>

\* The event loop receives QuitMsg: it returns without Update or View.
DeliverQuit ==
    /\ pc = "running"
    /\ quitPending
    /\ pc' = "done"
    /\ quitPending' = FALSE
    /\ UNCHANGED <<variant, m, heap, ticks, screen, lastEv, prev, quitSeen,
                   late>>
    /\ UNCHANGED <<mergeVars, sessVars, mainVars>>

Next ==
    \/ \E msg \in InputMsgs : DeliverInput(msg)
    \/ \E t \in ticks : DeliverTick(t)
    \/ DeliverQuit

Spec == Init /\ [][Next]_vars

----------------------------------------------------------------------------
(* The merge of the two message sources of one session.  The read loop     *)
(* decodes input and sends the messages to the driver one by one, oldest   *)
(* first; a tick command sends its message when its timer fires.  The      *)
(* driver takes whichever message is offered first.                        *)

MergeInputs ==
    {KeyMsg("j"), KeyMsg("k"), KeyMsg("enter"), KeyMsg("x"), WindowSizeMsg(10, 24)}

MergeModel == teaHandler(80, 24, 1, 1)

MergeInit ==
    /\ mgM = MergeModel
    /\ mgHeap = <<{}>>
    /\ mgPending = <<>>
    /\ mgSent = <<>>
    /\ mgApplied = <<>>
    /\ mgTicks = {TickMsg(ModelInit(mgM).id, ModelInit(mgM).tag)}
    /\ mgTickLog = <<>>
    /\ SessionAtRest
    /\ SessionsAtRest
    /\ MainAtRest

\* The read loop decodes one more input message.
ReadInput(msg) ==
    /\ Len(mgSent) < MaxInputs
    /\ mgPending' = Append(mgPending, msg)
    /\ mgSent' = Append(mgSent, msg)
    /\ UNCHANGED <<mgM, mgHeap, mgApplied, mgTicks, mgTickLog>>
    /\ UNCHANGED <<vars, sessVars, mainVars>>

\* The driver receives the read loop's oldest message: Update, View.
MergeDeliverInput ==
    /\ mgPending # <<>>
    /\ LET r == Update(mgM, mgHeap, Head(mgPending))
       IN  /\ mgM' = r.m
           /\ mgHeap' = r.heap
    /\ mgApplied' = Append(mgApplied, Head(mgPending))
    /\ mgPending' = Tail(mgPending)
    /\ UNCHANGED <<mgSent, mgTicks, mgTickLog>>
    /\ UNCHANGED <<vars, sessVars, mainVars>>

\* The driver receives a tick: Update, the next tick command, View.
MergeDeliverTick(t) ==
    /\ t \in mgTicks
    /\ mgM.spinner.tag < MaxMergeTag
    /\ LET r == Update(mgM, mgHeap, t)
       IN  /\ mgM' = r.m
           /\ mgHeap' = r.heap
           /\ mgTicks' = IF r.cmd.type = "tick"
                         THEN (mgTicks \ {t}) \cup {TickMsg(r.cmd.id, r.cmd.tag)}
                         ELSE mgTicks \ {t}
    /\ mgTickLog' = Append(mgTickLog, [tag |-> t.tag, after |-> Len(mgApplied)])
    /\ UNCHANGED <<mgPending, mgSent, mgApplied>>
    /\ UNCHANGED <<vars, sessVars, mainVars>>

MergeNext ==
    \/ \E msg \in MergeInputs : ReadInput(msg)
    \/ MergeDeliverInput
    \/ \E t \in mgTicks : MergeDeliverTick(t)

SpecMerge == MergeInit /\ [][MergeNext]_mergeVars

----------------------------------------------------------------------------
(* Concurrent sessions.  The server calls teaHandler for every session it  *)
(* accepts and runs a driver of its own for the model returned.  When the  *)
(* session's channel closes, the session's context is cancelled and the    *)
(* middleware sends the driver a quit message; a frame written after that  *)
(* fails, and the failure is not reported to anyone.                       *)

Sessions == {1, 2}

SessInputs == {KeyMsg("j"), KeyMsg("enter"), KeyMsg("q"), WindowSizeMsg(10, 24)}

\* Variant of MakeMap that hands every caller the same map.
MakeMapShared(hp) ==
    IF hp = <<>> THEN [heap |-> <<{}>>, addr |-> 1] ELSE [heap |-> hp, addr |-> 1]

\* make(map[int]struct{}): a new, empty map object.
MakeMap(hp) == [heap |-> Append(hp, {}), addr |-> Len(hp) + 1]

NoSession ==
    [pc |-> "idle", m |-> teaHandler(0, 0, 0, 0), ticks |-> {},
     quitPending |-> FALSE, closed |-> FALSE, failed |-> FALSE]

SessionsInit ==
    /\ sess = [s \in Sessions |-> NoSession]
    /\ sHeap = <<>>
    /\ lastID = 0
    /\ actor = 0
    /\ SessionAtRest
    /\ MergeAtRest
    /\ MainAtRest

\* The server accepts a connection: teaHandler builds the session's model,
\* the driver starts the command of Init and writes the first view.
Connect(s) ==
    /\ sess[s].pc = "idle"
    /\ LET a == MakeMap(sHeap)
           md == teaHandler(80, 24, a.addr, lastID + 1)
       IN  /\ sHeap' = a.heap
           /\ lastID' = lastID + 1
           /\ sess' = [sess EXCEPT ![s] =
                        [pc |-> "running", m |-> md,
                         ticks |-> {TickMsg(ModelInit(md).id, ModelInit(md).tag)},
                         quitPending |-> FALSE, closed |-> FALSE,
                         failed |-> FALSE]]
    /\ actor' = s
    /\ UNCHANGED <<vars, mergeVars, mainVars>>

\* One turn of session s's event loop for msg; rest are the tick commands
\* left in flight.  The view goes to the session's channel: the write fails
\* when the channel is closed.
SessProcess(s, msg, rest) ==
    LET r == Update(sess[s].m, sHeap, msg)
    IN  /\ sHeap' = r.heap
        /\ sess' = [sess EXCEPT
                ![s].m = r.m,
                ![s].quitPending = (@ \/ r.cmd.type = "quit"),
                ![s].ticks = IF r.cmd.type = "tick"
                             THEN rest \cup {TickMsg(r.cmd.id, r.cmd.tag)}
                             ELSE rest,
                ![s].failed = (@ \/ sess[s].closed)]
        /\ actor' = s
        /\ UNCHANGED lastID

SessInput(s, msg) ==
    /\ sess[s].pc = "running"
    /\ ~sess[s].closed
    /\ SessProcess(s, msg, sess[s].ticks)
    /\ UNCHANGED <<vars, mergeVars, mainVars>>

SessTick(s, t) ==
    /\ sess[s].pc = "running"
    /\ t \in sess[s].ticks
    /\ sess[s].m.spinner.tag < MaxSessTag
    /\ SessProcess(s, t, sess[s].ticks \ {t})
    /\ UNCHANGED <<vars, mergeVars, mainVars>>

\* The remote end closes the session's channel: a quit message is sent to
\* the session's driver.
SessClose(s) ==
    /\ sess[s].pc = "running"
    /\ ~sess[s].closed
    /\ sess' = [sess EXCEPT ![s].closed = TRUE, ![s].quitPending = TRUE]
    /\ actor' = s
    /\ UNCHANGED <<sHeap, lastID>>
    /\ UNCHANGED <<vars, mergeVars, mainVars>>

\* Variant of SessDeliverQuit in which one session's quit ends every session.
SessDeliverQuitAll(s) ==
    /\ sess[s].pc = "running"
    /\ sess[s].quitPending
    /\ sess' = [t \in Sessions |->
                    IF sess[t].pc = "running"
                    THEN [sess[t] EXCEPT !.pc = "done", !.quitPending = FALSE]
                    ELSE sess[t]]
    /\ actor' = s
    /\ UNCHANGED <<sHeap, lastID>>
    /\ UNCHANGED <<vars, mergeVars, mainVars>>

\* Session s's event loop receives the quit message and returns; the
\* session is released.
SessDeliverQuit(s) ==
    /\ sess[s].pc = "running"
    /\ sess[s].quitPending
    /\ sess' = [sess EXCEPT ![s].pc = "done", ![s].quitPending = FALSE]
    /\ actor' = s
    /\ UNCHANGED <<sHeap, lastID>>
    /\ UNCHANGED <<vars, mergeVars, mainVars>>

SessionsNext ==
    \/ \E s \in Sessions : Connect(s)
    \/ \E s \in Sessions, msg \in SessInputs : SessInput(s, msg)
    \/ \E s \in Sessions : \E t \in sess[s].ticks : SessTick(s, t)
    \/ \E s \in Sessions : SessClose(s)
    \/ \E s \in Sessions : SessDeliverQuit(s)

SpecSessions == SessionsInit /\ [][SessionsNext]_sessVars

\* Every goroutine that has a message for a driver gets to hand it over.
SpecSessionsFair ==
    SpecSessions /\ \A s \in Sessions : WF_sessVars(SessDeliverQuit(s))

----------------------------------------------------------------------------
(* main.  The process runs main, the goroutine that calls ListenAndServe   *)
(* and, in part_000, the goroutine of the static file server.  A call of a *)
(* method of a nil *ssh.Server dereferences nil: the goroutine panics and  *)
(* the process dies.                                                       *)

MainInit ==
    /\ mainPc = "new"
    /\ srv = "none"
    /\ lis = "none"
    /\ doneCh = <<>>
    /\ logs = {}
    /\ served = 0
    /\ proc = "running"
    /\ signalled = FALSE
    /\ http \in {"off", "serving"}
    /\ SessionAtRest
    /\ MergeAtRest
    /\ SessionsAtRest

\* s, err := wish.NewServer(...): on an error s is nil; the error is logged
\* and main goes on.
NewServer(ok) ==
    /\ proc = "running"
    /\ mainPc = "new"
    /\ srv' = IF ok THEN "ok" ELSE "nil"
    /\ logs' = IF ok THEN logs ELSE logs \cup {"Could not start server"}
    /\ mainPc' = "notify"
    /\ UNCHANGED <<lis, doneCh, served, proc, signalled, http>>
    /\ UNCHANGED <<vars, mergeVars, sessVars>>

\* make(done), signal.Notify, the log line and the go statement.
StartListener ==
    /\ proc = "running"
    /\ mainPc = "notify"
    /\ logs' = logs \cup {"Starting SSH server"}
    /\ lis' = "started"
    /\ mainPc' = "wait"
    /\ UNCHANGED <<srv, doneCh, served, proc, signalled, http>>
    /\ UNCHANGED <<vars, mergeVars, sessVars>>

\* The goroutine calls s.ListenAndServe: a panic when s is nil; otherwise
\* the listener is bound, or the call returns an error, which is logged.
ListenAndServe(bound) ==
    /\ proc = "running"
    /\ lis = "started"
    /\ IF srv = "nil"
       THEN /\ proc' = "crashed"
            /\ UNCHANGED <<lis, logs>>
       ELSE /\ lis' = IF bound THEN "serving" ELSE "failed"
            /\ logs' = IF bound THEN logs ELSE logs \cup {"Could not start server"}
            /\ UNCHANGED proc
    /\ UNCHANGED <<mainPc, srv, doneCh, served, signalled, http>>
    /\ UNCHANGED <<vars, mergeVars, sessVars>>

\* The server accepts a connection and calls teaHandler for its session.
Accept ==
    /\ proc = "running"
    /\ lis = "serving"
    /\ served < MaxServed
    /\ served' = served + 1
    /\ UNCHANGED <<mainPc, srv, lis, doneCh, logs, proc, signalled, http>>
    /\ UNCHANGED <<vars, mergeVars, sessVars>>

\* ListenAndServe returns an error while serving; it is logged.
ServeFails ==
    /\ proc = "running"
    /\ lis = "serving"
    /\ mainPc # "returned"
    /\ lis' = "failed"
    /\ logs' = logs \cup {"Could not start server"}
    /\ UNCHANGED <<mainPc, srv, doneCh, served, proc, signalled, http>>
    /\ UNCHANGED <<vars, mergeVars, sessVars>>

\* done <- nil: blocks while the channel is full.
ListenerSend ==
    /\ proc = "running"
    /\ lis = "failed"
    /\ doneCh = <<>>
    /\ doneCh' = <<"nil">>
    /\ lis' = "returned"
    /\ UNCHANGED <<mainPc, srv, logs, served, proc, signalled, http>>
    /\ UNCHANGED <<vars, mergeVars, sessVars>>

\* A termination signal after signal.Notify: put into done unless it is full.
Signal ==
    /\ proc = "running"
    /\ mainPc \in {"wait", "shutdown"}
    /\ ~signalled
    /\ signalled' = TRUE
    /\ doneCh' = IF doneCh = <<>> THEN <<"signal">> ELSE doneCh
    /\ UNCHANGED <<mainPc, srv, lis, logs, served, proc, http>>
    /\ UNCHANGED <<vars, mergeVars, sessVars>>

\* <-done and the log line after it.
Receive ==
    /\ proc = "running"
    /\ mainPc = "wait"
    /\ doneCh # <<>>
    /\ doneCh' = <<>>
    /\ logs' = logs \cup {"Stopping SSH server"}
    /\ mainPc' = "shutdown"
    /\ UNCHANGED <<srv, lis, served, proc, signalled, http>>
    /\ UNCHANGED <<vars, mergeVars, sessVars>>

\* s.Shutdown(ctx) and the return of main: a panic when s is nil; an error
\* of Shutdown (the timeout) is logged; ListenAndServe returns
\* ErrServerClosed, which is not logged.
Shutdown(inTime) ==
    /\ proc = "running"
    /\ mainPc = "shutdown"
    /\ IF srv = "nil"
       THEN /\ proc' = "crashed"
            /\ UNCHANGED <<mainPc, lis, logs>>
       ELSE /\ proc' = "exited"
            /\ mainPc' = "returned"
            /\ lis' = IF lis \in {"started", "serving"} THEN "closed" ELSE lis
            /\ logs' = IF inTime THEN logs ELSE logs \cup {"Could not stop server"}
    /\ UNCHANGED <<srv, doneCh, served, signalled, http>>
    /\ UNCHANGED <<vars, mergeVars, sessVars>>

\* part_000 only: http.ListenAndServe returns an error and log.Fatalf ends
\* the process.
HttpFails ==
    /\ proc = "running"
    /\ http = "serving"
    /\ http' = "failed"
    /\ logs' = logs \cup {"HTTP server failed"}
    /\ proc' = "fatal"
    /\ UNCHANGED <<mainPc, srv, lis, doneCh, served, signalled>>
    /\ UNCHANGED <<vars, mergeVars, sessVars>>

MainNext ==
    \/ \E ok \in BOOLEAN : NewServer(ok)
    \/ StartListener
    \/ \E bound \in BOOLEAN : ListenAndServe(bound)
    \/ Accept
    \/ ServeFails
    \/ ListenerSend
    \/ Signal
    \/ Receive
    \/ \E inTime \in BOOLEAN : Shutdown(inTime)
    \/ HttpFails

SpecMain == MainInit /\ [][MainNext]_mainVars

----------------------------------------------------------------------------
(* Properties. *)

selected == heap[m.selected]

prevSelected == prev.heap[prev.m.selected]

IsKey(msg, ks) == msg.type = "key" /\ msg.key \in ks

LastIndex == Len(options) - 1

\* C1: the cursor is always an index of options: 0 <= cursor < len(options).
\* A move up at cursor 0 and a move down at the last index leave the cursor
\* where it is, and no Update call moves it by more than one position.
C1_CursorInRange ==
    /\ m.cursor \in Indices
    /\ (IsKey(lastEv, {"up", "k"}) /\ prev.m.cursor = 0) => m.cursor = 0
    /\ (IsKey(lastEv, {"down", "j"}) /\ prev.m.cursor = LastIndex)
            => m.cursor = LastIndex
    /\ m.cursor - prev.m.cursor \in {-1, 0, 1}

C1_Witness ==
    /\ IsKey(lastEv, {"down", "j"})
    /\ prev.m.cursor = LastIndex
    /\ m.cursor = LastIndex

C4_Original ==
    IsKey(lastEv, {"enter", " "}) => heap[prev.m.selected] = prevSelected

\* C5 as claimed: the limit used to wrap a detail text is at least 1, and at
\* most width minus the padding when that difference is positive.
C5_Original ==
    \A j \in DOMAIN screen.body :
        screen.body[j].kind = "detail" =>
            /\ ~UintIsZero(screen.body[j].lim)
            /\ (m.width - Padding > 0) =>
                    UintLeqInt(screen.body[j].lim, m.width - Padding)

\* C6: two toggle keys in a row, applied to any reachable state, give back
\* the selected set (and so the membership of the cursor) the state had.
C6_ToggleTwice ==
    \A k1, k2 \in {"enter", " "} :
        LET r1 == Update(m, heap, KeyMsg(k1))
            r2 == Update(r1.m, r1.heap, KeyMsg(k2))
        IN  /\ r1.m.cursor = m.cursor
            /\ (m.cursor \in r1.heap[r1.m.selected]) # (m.cursor \in selected)
            /\ r2.heap[r2.m.selected] = selected
            /\ r2.m = m

C6_Witness ==
    /\ IsKey(lastEv, {"enter", " "})
    /\ prev.m.cursor \in prevSelected
    /\ m.cursor \notin selected
    /\ selected # {}

\* C7: a resize message sets width and height to the message's and leaves
\* cursor, the selected set and the spinner unchanged.
C7_ResizeFrame ==
    lastEv.type = "resize" =>
        /\ m.width = lastEv.w
        /\ m.height = lastEv.h
        /\ m.cursor = prev.m.cursor
        /\ m.selected = prev.m.selected
        /\ heap = prev.heap
        /\ m.spinner = prev.m.spinner

C7_Witness ==
    /\ lastEv.type = "resize"
    /\ m.width # prev.m.width
    /\ m.height # prev.m.height
    /\ m.cursor = 1
    /\ selected # {}
    /\ m.spinner.frame > 0

\* C8: a tick passed to Update advances the spinner frame by one modulo the
\* number of frames and leaves cursor, the selected set and the viewport
\* unchanged.
C8_TickFrame ==
    lastEv.type = "tick" =>
        /\ m.spinner.frame = (prev.m.spinner.frame + 1) % NumFrames
        /\ m.cursor = prev.m.cursor
        /\ m.selected = prev.m.selected
        /\ heap = prev.heap
        /\ m.width = prev.m.width
        /\ m.height = prev.m.height

C8_Witness ==
    /\ lastEv.type = "tick"
    /\ prev.m.spinner.frame = NumFrames - 1
    /\ m.spinner.frame = 0
    /\ m.cursor = 1
    /\ selected # {}

\* detailText(index) of the data model.
DetailText(i) == IF options[i + 1] = "info" THEN InfoDetails ELSE ContactDetails

DetailShown(i) ==
    \E j \in DOMAIN screen.body :
        screen.body[j].kind = "detail" /\ screen.body[j].text = DetailText(i)

\* C9 as claimed: in both variants the frame shows the detail text of an
\* option exactly when the option is selected.
C9_Original == \A i \in Indices : DetailShown(i) <=> i \in selected

\* C9 amended: in the variant with detail texts (part_000) the frame shows
\* the detail text of an option exactly when the option is selected; the
\* frame of the other variant (main.go) never shows a detail text.
C9_DetailIffSelected ==
    /\ variant = "wip" => \A i \in Indices : DetailShown(i) <=> i \in selected
    /\ variant = "main" => \A j \in DOMAIN screen.body : screen.body[j].kind # "detail"

C9_Witness ==
    /\ variant = "wip"
    /\ m.cursor = 1
    /\ selected = {1}
    /\ DetailShown(1)
    /\ ~DetailShown(0)

OptionLines == SelectSeq(screen.body, LAMBDA it : it.kind = "option")

ExpectedLine(i, atCursor, isSelected) ==
    IF i = 0
    THEN (IF atCursor
          THEN (IF isSelected THEN "> [x] info" ELSE "> [ ] info")
          ELSE (IF isSelected THEN "  [x] info" ELSE "  [ ] info"))
    ELSE (IF atCursor
          THEN (IF isSelected THEN "> [x] contact" ELSE "> [ ] contact")
          ELSE (IF isSelected THEN "  [x] contact" ELSE "  [ ] contact"))

\* C10: the frame has one line per option, in the order of options; line i
\* starts with ">" exactly when i is the cursor and has "x" in its box
\* exactly when i is selected; with cursor 0 and nothing selected the lines
\* are "> [ ] info" and "  [ ] contact".
C10_OptionLines ==
    /\ Len(OptionLines) = Len(options)
    /\ \A i \in Indices :
            OptionLines[i + 1].text = ExpectedLine(i, i = m.cursor, i \in selected)
    /\ (m.cursor = 0 /\ selected = {}) =>
            /\ OptionLines[1].text = "> [ ] info"
            /\ OptionLines[2].text = "  [ ] contact"

C10_Witness ==
    /\ m.cursor = 1
    /\ selected = {0}
    /\ OptionLines[1].text = "  [x] info"
    /\ OptionLines[2].text = "> [ ] contact"

\* C13: selected holds only indices of options, so never more than
\* len(options) of them.
C13_SelectedValid ==
    /\ selected \subseteq Indices
    /\ Cardinality(selected) <= Len(options)

C13_Witness ==
    /\ selected = Indices
    /\ IsKey(lastEv, {"enter", " "})
    /\ m.cursor = LastIndex

MoveKeysUp == {"up", "k"}
MoveKeysDown == {"down", "j"}
ToggleKeys == {"enter", " "}
QuitKeys == {"q", "ctrl+c"}

Max(a, b) == IF a >= b THEN a ELSE b
Min(a, b) == IF a <= b THEN a ELSE b

Flip(set, i) == IF i \in set THEN set \ {i} ELSE set \cup {i}

\* The command a key stands for in the input mapping.
Decode(k) ==
    IF k \in MoveKeysUp THEN "MoveUp"
    ELSE IF k \in MoveKeysDown THEN "MoveDown"
    ELSE IF k \in ToggleKeys THEN "ToggleSelect"
    ELSE IF k \in QuitKeys THEN "Quit"
    ELSE "Unrecognized"

\* The effect the transition function gives a command in state (m, heap).
Expected(c) ==
    [cursor |-> IF c = "MoveUp" THEN Max(0, m.cursor - 1)
                ELSE IF c = "MoveDown" THEN Min(LastIndex, m.cursor + 1)
                ELSE m.cursor,
     selected |-> IF c = "ToggleSelect" THEN Flip(selected, m.cursor) ELSE selected,
     quit |-> (c = "Quit")]

\* C14: in every reachable state each key acts as the one command the
\* mapping gives it: up/k move up, down/j move down, enter/space toggle,
\* q/ctrl+c quit, any other key does nothing.
C14_KeyMapping ==
    \A k \in Keys :
        LET r == Update(m, heap, KeyMsg(k))
            e == Expected(Decode(k))
        IN  /\ r.m.cursor = e.cursor
            /\ r.heap[r.m.selected] = e.selected
            /\ (r.cmd = QuitCmd) = e.quit
            /\ r.cmd \in {QuitCmd, NoCmd}
            /\ r.m = [m EXCEPT !.cursor = e.cursor]

C14_Witness ==
    /\ lastEv = KeyMsg("k")
    /\ prev.m.cursor = 1
    /\ m.cursor = 0
    /\ selected # {}

\* C16: a toggle key flips the membership of the cursor in selected and of
\* no other index, and leaves cursor, viewport and spinner unchanged.
C16_ToggleFrame ==
    IsKey(lastEv, ToggleKeys) =>
        /\ (m.cursor \in selected) # (m.cursor \in prevSelected)
        /\ \A i \in Indices \ {m.cursor} : (i \in selected) = (i \in prevSelected)
        /\ selected \ Indices = prevSelected \ Indices
        /\ m = prev.m

C16_Witness ==
    /\ IsKey(lastEv, ToggleKeys)
    /\ m.cursor = 1
    /\ prevSelected = {0}
    /\ selected = {0, 1}
    /\ m.spinner.frame > 0

Unrecognized(msg) ==
    \/ msg.type = "key" /\ Decode(msg.key) = "Unrecognized"
    \/ msg.type = "other"

\* C17: a key outside the mapping, or a message that is neither a key, a
\* resize nor a tick of this session's spinner, leaves the model and the
\* selected set unchanged, and the frame written is the view of that state.
C17_UnrecognizedNoOp ==
    /\ Unrecognized(lastEv) =>
            /\ m = prev.m
            /\ heap = prev.heap
            /\ screen = View(variant, prev.m, prev.heap)
    /\ \A tg \in 0 .. MaxTag :
            Update(m, heap, TickMsg(m.spinner.id + 1, tg))
                = [m |-> m, heap |-> heap, cmd |-> NoCmd]

C17_Witness ==
    /\ lastEv = KeyMsg("x")
    /\ m.cursor = 1
    /\ selected # {}
    /\ m.spinner.frame > 0
    /\ screen = View(variant, m, heap)

\* C20: a session always has exactly one tick scheduled or pending, the one
\* for the spinner's current tag (the first from Init, each next one from
\* the Update call that processed the one before), and no key, resize or
\* other input message makes Update return a tick command.
C20_OneTick ==
    /\ Cardinality(ticks) = 1
    /\ \A t \in ticks : t = TickMsg(m.spinner.id, m.spinner.tag)
    /\ \A msg \in InputMsgs : Update(m, heap, msg).cmd.type # "tick"

C20_Witness ==
    /\ lastEv.type = "key"
    /\ m.spinner.tag = 2
    /\ ticks = {TickMsg(1, 2)}
    /\ pc = "running"

\* The state Update reaches from (md, hp) over the messages of seq in order.
RECURSIVE ApplyAll(_, _, _)
ApplyAll(md, hp, seq) ==
    IF seq = <<>> THEN [m |-> md, heap |-> hp]
    ELSE LET r == Update(md, hp, Head(seq))
         IN  ApplyAll(r.m, r.heap, Tail(seq))

sSelected(t) == sHeap[sess[t].m.selected]

\* C12: a step of one session leaves every other session's model (cursor,
\* viewport, spinner) and selected set unchanged, and a connection that is
\* accepted starts from a fresh state: cursor 0, first spinner frame, and an
\* empty selected map and a spinner id that no other session has.
C12_Isolation ==
    [][\A t \in Sessions :
        /\ t # actor' => sess'[t] = sess[t]
        /\ (t # actor' /\ sess[t].pc # "idle") =>
                sHeap'[sess[t].m.selected] = sSelected(t)
        /\ (sess[t].pc = "idle" /\ sess'[t].pc = "running") =>
                /\ sess'[t].m.cursor = 0
                /\ sess'[t].m.spinner.frame = 0
                /\ sHeap'[sess'[t].m.selected] = {}
                /\ \A u \in Sessions \ {t} :
                        sess'[u].pc # "idle" =>
                            /\ sess'[u].m.selected # sess'[t].m.selected
                            /\ sess'[u].m.spinner.id # sess'[t].m.spinner.id
      ]_sessVars

C12_Witness ==
    /\ actor = 1
    /\ sess[1].pc = "running"
    /\ sess[2].pc = "running"
    /\ sess[1].m.cursor = 1
    /\ sSelected(1) = {1}
    /\ sess[1].m.width = 10
    /\ sess[1].m.spinner.frame = 1
    /\ sess[2].m.cursor = 0
    /\ sSelected(2) = {0}
    /\ sess[2].m.width = 80
    /\ sess[2].m.spinner.frame = 0

Terminating(t) == sess[t].quitPending \/ sess[t].closed \/ sess[t].failed

\* C19: with the driver scheduled fairly, a session in which a quit key was
\* processed, whose channel has closed or in which a frame write has failed
\* eventually stops and is released; and a session stops only in a step of
\* its own, after one of these happened to it.
C19_Terminates ==
    /\ \A t \in Sessions : Terminating(t) ~> sess[t].pc = "done"
    /\ [][\A t \in Sessions :
            (sess[t].pc = "running" /\ sess'[t].pc = "done") =>
                (actor' = t /\ Terminating(t))]_sessVars

C19_Witness ==
    /\ sess[1].pc = "done"
    /\ sess[1].failed
    /\ sess[2].pc = "running"
    /\ ~Terminating(2)
    /\ sSelected(2) # {}

StartupFailed ==
    \/ srv = "nil"
    \/ lis \in {"failed", "returned"} /\ served = 0

\* C15 as claimed: when wish.NewServer or ListenAndServe fails at startup,
\* the error is logged, no session is served, and the process ends by main
\* returning (a fatal exit of the static file server aside), with no
\* termination signal needed: main is never left waiting for one.
C15_Original ==
    StartupFailed =>
        /\ "Could not start server" \in logs
        /\ served = 0
        /\ proc \in {"running", "exited", "fatal"}
        /\ proc = "exited" => mainPc = "returned"

====
